---- MODULE Spec2Model ----
(***************************************************************************)
(* State-machine model of src/src/routes/histRouter.js: the recorders      *)
(* POST /hist/pontos and POST /hist/transacoes, the history queries         *)
(* GET /hist/:idUser and GET /hist, and the record store they share         *)
(* (tables histPoints and histTransactions).                                *)
(*                                                                         *)
(* Runtime behaviour the handlers rely on is modelled as Node.js (V8 with   *)
(* full ICU) computes it:                                                   *)
(*  - toLocaleString('pt-BR') renders day/month/year, 24-hour time;         *)
(*  - new Date(<string>) on that rendering goes through V8's legacy parser, *)
(*    which reads the first number as the MONTH and the second as the DAY   *)
(*    and yields Invalid Date (NaN) when the first number is above 12;      *)
(*  - Array.prototype.sort is V8's TimSort, which for the array lengths     *)
(*    reachable here is a run detection followed by binary insertion; a     *)
(*    NaN comparator result is treated as +0.                               *)
(***************************************************************************)
EXTENDS Integers, Sequences, FiniteSets, TLC

VARIABLES histPoints, histTransactions, now, q, res

vars == <<histPoints, histTransactions, now, q, res>>

(***************************************************************************)
(* Bounds of the model.                                                    *)
(***************************************************************************)
MaxRows == 2

(***************************************************************************)
(* Dates.  A stored DATETIME is a wall-clock record.  Instants are the      *)
(* readings of the service clock, in increasing order; now is the latest   *)
(* reading stamped on a stored record, and the clock never runs backwards: *)
(* a recorder reads Instants[t] for some t >= now.                         *)
(***************************************************************************)
DT(y, mo, d, hh, mi, ss) ==
    [y |-> y, mo |-> mo, d |-> d, hh |-> hh, mi |-> mi, ss |-> ss]

Day(y, mo, d) == [present |-> TRUE, y |-> y, mo |-> mo, d |-> d]

NoDay == [present |-> FALSE, y |-> 0, mo |-> 0, d |-> 0]

Instants ==
    << DT(2024, 1, 2, 23, 59, 59),
       DT(2024, 1, 3, 0, 0, 0),
       DT(2024, 1, 31, 23, 59, 59),
       DT(2024, 2, 1, 0, 0, 0) >>

\* Seconds of a wall-clock reading inside its year (months padded to 31 days:
\* only the order matters).
YearSecs(mo, d, hh, mi, ss) == (((mo * 31 + d) * 24 + hh) * 60 + mi) * 60 + ss

\* a <= b on DATETIME values, as MySQL compares them.
DtLE(a, b) ==
    \/ a.y < b.y
    \/ /\ a.y = b.y
       /\ YearSecs(a.mo, a.d, a.hh, a.mi, a.ss) <= YearSecs(b.mo, b.d, b.hh, b.mi, b.ss)

DtLT(a, b) == DtLE(a, b) /\ a # b

\* new Date().toLocaleString('sv-SE', {timeZone: 'America/Sao_Paulo'}).replace(' ', 'T')
getBrazilDateTime(t) == Instants[t]

(***************************************************************************)
(* JavaScript values of a request body's fields.                           *)
(***************************************************************************)
Undefined == [k |-> "undefined", s |-> "", n |-> 0]
Null == [k |-> "null", s |-> "", n |-> 0]
Str(x) == [k |-> "string", s |-> x, n |-> 0]
Num(x) == [k |-> "number", s |-> "", n |-> x]

\* Variant of Truthy: only absent values are refused (v !== undefined && v !== null).
TruthyDefined(v) == v.k \notin {"undefined", "null"}

\* !v is false
Truthy(v) ==
    \/ v.k = "string" /\ v.s # ""
    \/ v.k = "number" /\ v.n # 0

Users == {"u1", "u2"}

IdVals == {Str(""), Str("p1")}
UserVals == {Null} \cup {Str(u) : u \in Users}
PointVals == {Num(0), Num(10)}
DescVals == {Undefined, Str("beneficio")}
DateVals == {Str("1999-01-01T00:00:00")}

\* req.body of POST /hist/pontos (date: a field the caller may add)
PontosBodies ==
    [id : IdVals, idUser : UserVals, points : PointVals, date : DateVals]

\* req.body of POST /hist/transacoes
TransacoesBodies ==
    [idUser : UserVals, description : DescVals, points : PointVals, date : DateVals]

\* req.query.start and req.query.end: absent, or a day (YYYY-MM-DD)
StartVals == {NoDay, Day(2024, 1, 3)}
EndVals == {NoDay, Day(2024, 1, 31)}

(***************************************************************************)
(* Rows and entries.                                                       *)
(***************************************************************************)
\* The value of a column a SELECT does not name (description of a 'ponto').
NoField == "<absent>"

\* Variant of PointRow: the date is the clock reading taken when the service
\* started, not the reading of this request.
PointRowStale(body, brazilDate) ==
    [id |-> body.id.s, points |-> body.points.n, idUser |-> body.idUser.s,
     date |-> Instants[1]]

\* INSERT INTO histPoints (id, points, idUser, date) VALUES (?, ?, ?, ?)
PointRow(body, brazilDate) ==
    [id |-> body.id.s, points |-> body.points.n, idUser |-> body.idUser.s,
     date |-> brazilDate]

\* INSERT INTO histTransactions (description, points, idUser, date) VALUES (?, ?, ?, ?)
\* The id column is generated by the store: the row's number.
TransactionRow(body, brazilDate, rowId) ==
    [id |-> rowId, description |-> body.description.s, points |-> body.points.n,
     idUser |-> body.idUser.s, date |-> brazilDate]

\* start ? `${start} 00:00:00` : '1970-01-01 00:00:00'
startDateTime(start) ==
    IF start.present THEN DT(start.y, start.mo, start.d, 0, 0, 0)
    ELSE DT(1970, 1, 1, 0, 0, 0)

\* Variant of endDateTime: the end day stops at its first second.
endDateTimeMidnight(end) ==
    IF end.present THEN DT(end.y, end.mo, end.d, 0, 0, 0)
    ELSE DT(2999, 12, 31, 23, 59, 59)

\* end ? `${end} 23:59:59` : '2999-12-31 23:59:59'
endDateTime(end) ==
    IF end.present THEN DT(end.y, end.mo, end.d, 23, 59, 59)
    ELSE DT(2999, 12, 31, 23, 59, 59)

\* date BETWEEN ? AND ?
Between(date, lo, hi) == DtLE(lo, date) /\ DtLE(date, hi)

\* Variant of Where: the idUser condition is left out.
WhereNoUser(row, route, idUser, start, end) ==
    Between(row.date, startDateTime(start), endDateTime(end))

\* WHERE idUser = ? AND date BETWEEN ? AND ?   (/hist/:idUser)
\* WHERE date BETWEEN ? AND ?                  (/hist)
Where(row, route, idUser, start, end) ==
    /\ route = "/hist/:idUser" => row.idUser = idUser
    /\ Between(row.date, startDateTime(start), endDateTime(end))

\* SELECT id, idUser, points, date, 'ponto' AS tipo FROM histPoints ...
\* (row is the position of the record in its table: it identifies the record)
PointEntry(i) ==
    [tipo |-> "ponto", row |-> i, id |-> histPoints[i].id,
     idUser |-> histPoints[i].idUser, points |-> histPoints[i].points,
     description |-> NoField, date |-> histPoints[i].date]

\* SELECT id, idUser, description, points, date, 'transacao' AS tipo FROM histTransactions ...
TransactionEntry(i) ==
    [tipo |-> "transacao", row |-> i, id |-> histTransactions[i].id,
     idUser |-> histTransactions[i].idUser, points |-> histTransactions[i].points,
     description |-> histTransactions[i].description, date |-> histTransactions[i].date]

\* The indices of the rows of a table the WHERE clause keeps.
Matching(table, route, idUser, start, end) ==
    {i \in 1..Len(table) : Where(table[i], route, idUser, start, end)}

\* The orders in which the store may return the rows idx (the SELECTs have no
\* ORDER BY): every arrangement of them.
Arrangements(idx) ==
    {f \in [1..Cardinality(idx) -> idx] : \A i \in idx : \E k \in DOMAIN f : f[k] = i}

\* Variant of SelectPoints: at most one row is fetched (LIMIT 1).
SelectPointsLimit(route, idUser, start, end) ==
    LET idx == Matching(histPoints, route, idUser, start, end)
    IN  IF idx = {} THEN {<<>>} ELSE {<<PointEntry(i)>> : i \in idx}

SelectPoints(route, idUser, start, end) ==
    {[k \in DOMAIN f |-> PointEntry(f[k])] :
        f \in Arrangements(Matching(histPoints, route, idUser, start, end))}

SelectTransactions(route, idUser, start, end) ==
    {[k \in DOMAIN f |-> TransactionEntry(f[k])] :
        f \in Arrangements(Matching(histTransactions, route, idUser, start, end))}

(***************************************************************************)
(* Display rendering, re-parsing and the sort.                             *)
(***************************************************************************)
\* new Date(date).toLocaleString('pt-BR'): the string "f1/f2/f3, hh:mi:ss"
\* with f1 the day, f2 the month and f3 the year.
formatDateToBrazil(date) ==
    [f1 |-> date.d, f2 |-> date.mo, f3 |-> date.y,
     hh |-> date.hh, mi |-> date.mi, ss |-> date.ss]

\* new Date("f1/f2/f3, hh:mi:ss"): f1 is read as the month and f2 as the day;
\* a month outside 1..12 or a day outside 1..31 gives Invalid Date (NaN).
ParseDate(str) ==
    IF str.f1 \in 1..12 /\ str.f2 \in 1..31
    THEN [nan |-> FALSE, y |-> str.f3,
          secs |-> YearSecs(str.f1, str.f2, str.hh, str.mi, str.ss)]
    ELSE [nan |-> TRUE, y |-> 0, secs |-> 0]

\* t1 >= t2 on numbers that may be NaN (false when either is NaN).
TimeGE(t1, t2) ==
    /\ ~t1.nan
    /\ ~t2.nan
    /\ (t1.y > t2.y \/ (t1.y = t2.y /\ t1.secs >= t2.secs))

\* .map(item => ({...item, date: formatDateToBrazil(item.date)}))
MapDisplay(items) ==
    [k \in DOMAIN items |-> [items[k] EXCEPT !.date = formatDateToBrazil(@)]]

\* (a, b) => new Date(b.date) - new Date(a.date), and what the sort makes of
\* it: NaN counts as +0; otherwise only the sign is used.
SortCompare(a, b) ==
    LET ta == ParseDate(a.date)
        tb == ParseDate(b.date)
    IN  IF ta.nan \/ tb.nan THEN 0
        ELSE IF TimeGE(tb, ta) /\ TimeGE(ta, tb) THEN 0
        ELSE IF TimeGE(tb, ta) THEN 1
        ELSE -1

Reverse(s) == [k \in DOMAIN s |-> s[Len(s) + 1 - k]]

\* TimSort's CountAndMakeRun: the last index of the run that starts at 1.
RECURSIVE RunEnd(_, _, _)
RunEnd(a, idx, isDescending) ==
    IF idx > Len(a) THEN idx - 1
    ELSE LET order == SortCompare(a[idx], a[idx - 1])
         IN  IF (isDescending /\ order >= 0) \/ (~isDescending /\ order < 0)
             THEN idx - 1
             ELSE RunEnd(a, idx + 1, isDescending)

\* TimSort's binary search for the place of pivot in a[left .. right-1].
RECURSIVE BinarySearch(_, _, _, _)
BinarySearch(a, pivot, left, right) ==
    IF left >= right THEN left
    ELSE LET mid == left + ((right - left) \div 2)
         IN  IF SortCompare(pivot, a[mid]) < 0
             THEN BinarySearch(a, pivot, left, mid)
             ELSE BinarySearch(a, pivot, mid + 1, right)

\* TimSort's BinaryInsertionSort from index start on.
RECURSIVE BinaryInsertionSort(_, _)
BinaryInsertionSort(a, start) ==
    IF start > Len(a) THEN a
    ELSE LET pivot == a[start]
             pos == BinarySearch(a, pivot, 1, start)
             moved == SubSeq(a, 1, pos - 1) \o <<pivot>> \o SubSeq(a, pos, start - 1)
                          \o SubSeq(a, start + 1, Len(a))
         IN  BinaryInsertionSort(moved, start + 1)

\* .sort((a, b) => new Date(b.date) - new Date(a.date)) on an array shorter
\* than TimSort's minimum run length: one run is found (and reversed when it
\* is strictly descending), the rest is inserted into it.
Sort(a) ==
    IF Len(a) < 2 THEN a
    ELSE LET isDescending == SortCompare(a[2], a[1]) < 0
             runEnd == RunEnd(a, 3, isDescending)
             run == SubSeq(a, 1, runEnd)
             made == (IF isDescending THEN Reverse(run) ELSE run)
                         \o SubSeq(a, runEnd + 1, Len(a))
         IN  BinaryInsertionSort(made, runEnd + 1)

\* [...pointsHistory, ...transactionsHistory].map(...).sort(...)
History(pointsHistory, transactionsHistory) ==
    Sort(MapDisplay(pointsHistory \o transactionsHistory))

\* history.reduce((acc, item) => { if (!acc[item.idUser]) acc[item.idUser] = [];
\*                                 acc[item.idUser].push(item); return acc; }, {})
EmptyObject == [u \in {} |-> <<>>]

\* Variant of Reduce: the bucket is assigned, not pushed to.
RECURSIVE ReduceOverwrite(_, _, _)
ReduceOverwrite(history, i, acc) ==
    IF i > Len(history) THEN acc
    ELSE LET item == history[i]
         IN  ReduceOverwrite(history, i + 1,
                 [u \in DOMAIN acc \cup {item.idUser} |->
                     IF u = item.idUser THEN <<item>> ELSE acc[u]])

RECURSIVE Reduce(_, _, _)
Reduce(history, i, acc) ==
    IF i > Len(history) THEN acc
    ELSE LET item == history[i]
             acc1 == IF item.idUser \in DOMAIN acc THEN acc
                     ELSE [u \in DOMAIN acc \cup {item.idUser} |->
                             IF u = item.idUser THEN <<>> ELSE acc[u]]
             acc2 == [acc1 EXCEPT ![item.idUser] = Append(@, item)]
         IN  Reduce(history, i + 1, acc2)

GroupByUser(history) == Reduce(history, 1, EmptyObject)

(***************************************************************************)
(* Responses and the query in flight.                                      *)
(***************************************************************************)
\* The history query a response answers: its route and parameters, and p0
\* and t0, the sizes of histPoints and histTransactions when the handler
\* started.
NoRequest ==
    [route |-> "none", idUser |-> "", start |-> NoDay, end |-> NoDay,
     p0 |-> 0, t0 |-> 0]

\* res.status(status).json(...): what the step just taken answered (status 0:
\* it answered nothing).  history is the handler's sorted array (the body of
\* /hist/:idUser), result the grouping (the body of /hist).  The message
\* texts of the bodies are not modelled.
Response(req, status, history, result) ==
    [req |-> req, status |-> status, history |-> history, result |-> result]

\* res.status(400 | 201 | 500).json({...}) of a recorder
Plain(status) == Response(NoRequest, status, <<>>, EmptyObject)

\* catch (error) { res.status(500).json({error, details}) } of a history query
QueryFailed(route) ==
    Response([NoRequest EXCEPT !.route = route], 500, <<>>, EmptyObject)

NoResponse == Plain(0)

Idle == [pc |-> "idle", req |-> NoRequest, pointsHistory |-> <<>>]

Rows == Len(histPoints) + Len(histTransactions)

Init ==
    /\ histPoints = <<>>
    /\ histTransactions = <<>>
    /\ now = 1
    /\ q = Idle
    /\ res = NoResponse

(***************************************************************************)
(* router.post('/hist/pontos')                                             *)
(***************************************************************************)
\* if (!id || !idUser || !points)
PontosInvalid(body) ==
    ~Truthy(body.id) \/ ~Truthy(body.idUser) \/ ~Truthy(body.points)

\* Variant of PostPontos: a record whose id is already stored is replaced
\* (REPLACE INTO histPoints ...).
PostPontosReplace(body) ==
    /\ UNCHANGED <<histTransactions, q>>
    /\ IF PontosInvalid(body)
       THEN /\ res' = Plain(400)
            /\ UNCHANGED <<histPoints, now>>
       ELSE \/ /\ \E t \in now..Len(Instants) :
                     /\ now' = t
                     /\ IF \E i \in DOMAIN histPoints : histPoints[i].id = body.id.s
                        THEN histPoints' =
                                 [i \in DOMAIN histPoints |->
                                     IF histPoints[i].id = body.id.s
                                     THEN PointRow(body, getBrazilDateTime(t))
                                     ELSE histPoints[i]]
                        ELSE /\ Rows < MaxRows
                             /\ histPoints' =
                                    Append(histPoints, PointRow(body, getBrazilDateTime(t)))
               /\ res' = Plain(201)
            \/ /\ res' = Plain(500)
               /\ UNCHANGED <<histPoints, now>>

PostPontos(body) ==
    /\ UNCHANGED <<histTransactions, q>>
    /\ IF PontosInvalid(body)
       THEN /\ res' = Plain(400)
            /\ UNCHANGED <<histPoints, now>>
       ELSE \/ /\ Rows < MaxRows
               /\ \E t \in now..Len(Instants) :
                     /\ now' = t
                     /\ histPoints' =
                            Append(histPoints, PointRow(body, getBrazilDateTime(t)))
               /\ res' = Plain(201)
            \/ \* promisePool.execute rejects
               /\ res' = Plain(500)
               /\ UNCHANGED <<histPoints, now>>

(***************************************************************************)
(* router.post('/hist/transacoes')                                         *)
(***************************************************************************)
\* if (!idUser || !description || !points)
TransacoesInvalid(body) ==
    ~Truthy(body.idUser) \/ ~Truthy(body.description) \/ ~Truthy(body.points)

PostTransacoes(body) ==
    /\ UNCHANGED <<histPoints, q>>
    /\ IF TransacoesInvalid(body)
       THEN /\ res' = Plain(400)
            /\ UNCHANGED <<histTransactions, now>>
       ELSE \/ /\ Rows < MaxRows
               /\ \E t \in now..Len(Instants) :
                     /\ now' = t
                     /\ histTransactions' =
                            Append(histTransactions,
                                   TransactionRow(body, getBrazilDateTime(t),
                                                  Len(histTransactions) + 1))
               /\ res' = Plain(201)
            \/ \* promisePool.execute rejects
               /\ res' = Plain(500)
               /\ UNCHANGED <<histTransactions, now>>

(***************************************************************************)
(* router.get('/hist/:idUser') and router.get('/hist').  A handler runs to *)
(* its first await, where the SELECT on histPoints is executed; recorders  *)
(* may run before it resumes.  When it resumes the SELECT on               *)
(* histTransactions is executed and the handler runs to its response.      *)
(***************************************************************************)
\* The handler starts and its first SELECT runs.
QueryPoints(route, idUser, start, end) ==
    /\ q.pc = "idle"
    /\ UNCHANGED <<histPoints, histTransactions, now>>
    /\ LET req == [route |-> route, idUser |-> idUser, start |-> start, end |-> end,
                   p0 |-> Len(histPoints), t0 |-> Len(histTransactions)]
       IN  \/ \E rows \in SelectPoints(route, idUser, start, end) :
                 /\ q' = [pc |-> "points", req |-> req, pointsHistory |-> rows]
                 /\ res' = NoResponse
           \/ \* promisePool.execute rejects: catch
              /\ res' = QueryFailed(route)
              /\ UNCHANGED q

\* The body of the 200 response.
Answer(req, pointsHistory, transactionsHistory) ==
    LET history == History(pointsHistory, transactionsHistory)
    IN  IF req.route = "/hist"
        THEN Response(req, 200, history, GroupByUser(history))
        ELSE Response(req, 200, history, EmptyObject)

\* Variant of QueryTransactions: when the second SELECT fails the rows of the
\* first are sent with the error.
QueryTransactionsPartial ==
    /\ q.pc = "points"
    /\ UNCHANGED <<histPoints, histTransactions, now>>
    /\ q' = Idle
    /\ \/ \E rows \in SelectTransactions(q.req.route, q.req.idUser,
                                         q.req.start, q.req.end) :
             res' = Answer(q.req, q.pointsHistory, rows)
       \/ res' = [Answer(q.req, q.pointsHistory, <<>>) EXCEPT !.status = 500]

\* Its second SELECT runs; merge, render, sort, (group,) respond.
QueryTransactions ==
    /\ q.pc = "points"
    /\ UNCHANGED <<histPoints, histTransactions, now>>
    /\ q' = Idle
    /\ \/ \E rows \in SelectTransactions(q.req.route, q.req.idUser,
                                         q.req.start, q.req.end) :
             res' = Answer(q.req, q.pointsHistory, rows)
       \/ \* promisePool.execute rejects: catch
          res' = QueryFailed(q.req.route)

GetUser(idUser, start, end) == QueryPoints("/hist/:idUser", idUser, start, end)

GetAll(start, end) == QueryPoints("/hist", "", start, end)

Next ==
    \/ \E body \in PontosBodies : PostPontos(body)
    \/ \E body \in TransacoesBodies : PostTransacoes(body)
    \/ \E idUser \in Users, start \in StartVals, end \in EndVals :
          GetUser(idUser, start, end)
    \/ \E start \in StartVals, end \in EndVals : GetAll(start, end)
    \/ QueryTransactions

Spec == Init /\ [][Next]_vars

\* The recorders alone: the requests that write.
RecorderNext ==
    \/ \E body \in PontosBodies : PostPontos(body)
    \/ \E body \in TransacoesBodies : PostTransacoes(body)

RecorderSpec == Init /\ [][RecorderNext]_vars

(***************************************************************************)
(* Vocabulary of the properties.                                           *)
(***************************************************************************)
IsHistory == res.status = 200

\* The entries of the response body, in order: the array of /hist/:idUser, or
\* the buckets of /hist one after the other.
RECURSIVE Flatten(_, _)
Flatten(result, keys) ==
    IF keys = {} THEN <<>>
    ELSE LET u == CHOOSE x \in keys : TRUE
         IN  result[u] \o Flatten(result, keys \ {u})

Returned ==
    IF res.req.route = "/hist" THEN Flatten(res.result, DOMAIN res.result)
    ELSE res.history

\* The closed window of a request, written out.
WindowStart(req) ==
    IF req.start.present
    THEN [y |-> req.start.y, mo |-> req.start.mo, d |-> req.start.d,
          hh |-> 0, mi |-> 0, ss |-> 0]
    ELSE [y |-> 1970, mo |-> 1, d |-> 1, hh |-> 0, mi |-> 0, ss |-> 0]

WindowEnd(req) ==
    IF req.end.present
    THEN [y |-> req.end.y, mo |-> req.end.mo, d |-> req.end.d,
          hh |-> 23, mi |-> 59, ss |-> 59]
    ELSE [y |-> 2999, mo |-> 12, d |-> 31, hh |-> 23, mi |-> 59, ss |-> 59]

InWindow(date, req) == DtLE(WindowStart(req), date) /\ DtLE(date, WindowEnd(req))

InScope(row, req) == req.route = "/hist" \/ row.idUser = req.idUser

Matches(row, req) == InScope(row, req) /\ InWindow(row.date, req)

\* The matching records each sub-query had before it: those of histPoints
\* stored when the handler started, and those of histTransactions stored when
\* the second SELECT ran (the tables of the state the response is given in).
SeenPoints == {i \in 1..res.req.p0 : Matches(histPoints[i], res.req)}

SeenTransactions ==
    {i \in 1..Len(histTransactions) : Matches(histTransactions[i], res.req)}

HasEntry(h, tipo, i) == \E k \in DOMAIN h : h[k].tipo = tipo /\ h[k].row = i

\* The stored record an entry was made from.
StoredRow(e) == IF e.tipo = "ponto" THEN histPoints[e.row] ELSE histTransactions[e.row]

\* The entry carries the fields of its stored record.
Carries(e) ==
    /\ e.row \in 1..(IF e.tipo = "ponto" THEN Len(histPoints) ELSE Len(histTransactions))
    /\ e.id = StoredRow(e).id
    /\ e.idUser = StoredRow(e).idUser
    /\ e.points = StoredRow(e).points
    /\ e.tipo = "transacao" => e.description = StoredRow(e).description

\* A required field of a write request is missing or falsy.
Falsy(v) == v.k \in {"undefined", "null"} \/ v = Str("") \/ v = Num(0)

(***************************************************************************)
(* C1 - merge completeness.  A history query that answers 200 returns       *)
(* exactly the matching records its two sub-queries had before them (the    *)
(* point events stored when the first SELECT ran, the transactions stored   *)
(* when the second ran): each of them once, tagged 'ponto' or 'transacao'   *)
(* by its table and carrying its fields, nothing else, and for              *)
(* /hist/:idUser only entries of the requested user.                        *)
(***************************************************************************)
C1_MergeComplete ==
    IsHistory =>
        LET h == Returned
        IN  /\ Len(h) = Cardinality(SeenPoints) + Cardinality(SeenTransactions)
            /\ \A i \in SeenPoints : HasEntry(h, "ponto", i)
            /\ \A i \in SeenTransactions : HasEntry(h, "transacao", i)
            /\ \A k \in DOMAIN h :
                  /\ h[k].tipo \in {"ponto", "transacao"}
                  /\ h[k].tipo = "ponto" => h[k].row \in SeenPoints
                  /\ h[k].tipo = "transacao" => h[k].row \in SeenTransactions
                  /\ Carries(h[k])
                  /\ res.req.route = "/hist/:idUser" => h[k].idUser = res.req.idUser

\* A single-user history holding a point event and a transaction, with a
\* record of another user stored and left out.
C1_Witness ==
    /\ IsHistory
    /\ res.req.route = "/hist/:idUser"
    /\ \E k \in DOMAIN res.history : res.history[k].tipo = "ponto"
    /\ \E i \in DOMAIN histTransactions : histTransactions[i].idUser # res.req.idUser

(***************************************************************************)
(* C2 - the returned history is ordered by the stored occurredAt,           *)
(* descending: no entry comes before an entry whose stored date is later.   *)
(***************************************************************************)
C2_OrderedByOccurredAt ==
    IsHistory =>
        \A i, j \in DOMAIN res.history :
            i < j => ~DtLT(StoredRow(res.history[i]).date, StoredRow(res.history[j]).date)

(***************************************************************************)
(* C3 - in the returned sequence every entry's re-parsed display timestamp  *)
(* is greater than or equal to that of every entry after it.                *)
(***************************************************************************)
C3_OrderedByParsedDisplay ==
    IsHistory =>
        \A i, j \in DOMAIN res.history :
            i < j => TimeGE(ParseDate(res.history[i].date), ParseDate(res.history[j].date))

(***************************************************************************)
(* C4 - validation completeness.  A write request with a required field     *)
(* missing or falsy (undefined, null, "", 0) is answered 400 and neither    *)
(* table changes.                                                          *)
(***************************************************************************)
C4_ValidationNoAppend ==
    [][ /\ \A body \in PontosBodies :
              (PostPontos(body)
                 /\ (Falsy(body.id) \/ Falsy(body.idUser) \/ Falsy(body.points)))
              => (res'.status = 400 /\ UNCHANGED <<histPoints, histTransactions>>)
        /\ \A body \in TransacoesBodies :
              (PostTransacoes(body)
                 /\ (Falsy(body.idUser) \/ Falsy(body.description) \/ Falsy(body.points)))
              => (res'.status = 400 /\ UNCHANGED <<histPoints, histTransactions>>)
        /\ res'.status = 400 => UNCHANGED <<histPoints, histTransactions>>
      ]_vars

\* A validation error answered while records are stored.
C4_Witness == res.status = 400 /\ Rows > 0

(***************************************************************************)
(* C5 - window inclusivity.  Of the records of its scope that a sub-query   *)
(* had before it, a history query returns exactly those whose occurredAt    *)
(* lies in [start 00:00:00 or 1970-01-01 00:00:00,                          *)
(*          end 23:59:59 or 2999-12-31 23:59:59], bounds included.          *)
(***************************************************************************)
C5_ClosedWindow ==
    IsHistory =>
        /\ \A i \in 1..res.req.p0 :
              InScope(histPoints[i], res.req) =>
                  (HasEntry(Returned, "ponto", i) <=> InWindow(histPoints[i].date, res.req))
        /\ \A i \in 1..Len(histTransactions) :
              InScope(histTransactions[i], res.req) =>
                  (HasEntry(Returned, "transacao", i)
                      <=> InWindow(histTransactions[i].date, res.req))

\* start and end given: the record at end 23:59:59 is returned, the record one
\* second later is not.
C5_Witness ==
    /\ IsHistory
    /\ res.req.start.present
    /\ res.req.end.present
    /\ \E k \in DOMAIN Returned : StoredRow(Returned[k]).date = Instants[3]
    /\ \E i \in 1..res.req.p0 :
          /\ histPoints[i].date = Instants[4]
          /\ InScope(histPoints[i], res.req)
          /\ ~HasEntry(Returned, "ponto", i)

(***************************************************************************)
(* C6 - grouping.  The body of GET /hist maps exactly the idUser values of  *)
(* the sorted merged sequence to buckets; each bucket is the sub-sequence   *)
(* of that user's entries, in the order of the sorted sequence.             *)
(***************************************************************************)
OfUser(history, u) ==
    LET Test(e) == e.idUser = u
    IN  SelectSeq(history, Test)

C6_Grouping ==
    (IsHistory /\ res.req.route = "/hist") =>
        /\ DOMAIN res.result = {res.history[k].idUser : k \in DOMAIN res.history}
        /\ DOMAIN res.result =
               {histPoints[i].idUser : i \in SeenPoints}
                   \cup {histTransactions[i].idUser : i \in SeenTransactions}
        /\ \A u \in DOMAIN res.result : res.result[u] = OfUser(res.history, u)

\* Two entries of one user in one bucket.
C6_Witness ==
    /\ IsHistory
    /\ res.req.route = "/hist"
    /\ \E u \in DOMAIN res.result : Len(res.result[u]) = 2

(***************************************************************************)
(* C7 - no partial success.  A history query answers 200 only from the      *)
(* step in which its second sub-query succeeds after its first did; any     *)
(* other answer of a query is a 500 that carries no history at all.         *)
(***************************************************************************)
C7_NoPartialResult ==
    [][ /\ res'.status = 200 => (q.pc = "points" /\ q'.pc = "idle")
        /\ (res'.req.route # "none" /\ res'.status # 200) =>
              (res'.status = 500 /\ res'.history = <<>> /\ res'.result = EmptyObject)
      ]_vars

\* A query failed although records matching it are stored.
C7_Witness ==
    /\ res.status = 500
    /\ res.req.route = "/hist"
    /\ Len(histPoints) > 0
    /\ Len(histTransactions) > 0

(***************************************************************************)
(* C8 - recording.  A write request with every required field truthy is     *)
(* answered 201 with exactly one record appended to the table of its kind,  *)
(* carrying the caller's fields and a date read from the service clock (at  *)
(* or after every date stamped before), the other table unchanged; or it    *)
(* is answered 500 and nothing is appended.                                 *)
(***************************************************************************)
C8_RecordsOne ==
    [][ /\ \A body \in PontosBodies :
              (PostPontos(body)
                 /\ ~(Falsy(body.id) \/ Falsy(body.idUser) \/ Falsy(body.points)))
              => \/ /\ res'.status = 201
                    /\ now' >= now
                    /\ histPoints' =
                          Append(histPoints,
                                 [id |-> body.id.s, idUser |-> body.idUser.s,
                                  points |-> body.points.n, date |-> Instants[now']])
                    /\ UNCHANGED histTransactions
                 \/ /\ res'.status = 500
                    /\ UNCHANGED <<histPoints, histTransactions>>
        /\ \A body \in TransacoesBodies :
              (PostTransacoes(body)
                 /\ ~(Falsy(body.idUser) \/ Falsy(body.description) \/ Falsy(body.points)))
              => \/ /\ res'.status = 201
                    /\ now' >= now
                    /\ histTransactions' =
                          Append(histTransactions,
                                 [id |-> Len(histTransactions) + 1,
                                  idUser |-> body.idUser.s,
                                  description |-> body.description.s,
                                  points |-> body.points.n, date |-> Instants[now']])
                    /\ UNCHANGED histPoints
                 \/ /\ res'.status = 500
                    /\ UNCHANGED <<histPoints, histTransactions>>
        /\ res'.status = 201 => Rows' = Rows + 1
      ]_vars

\* A record of each kind was stored, the latest answered 201 after the clock
\* had moved on.
C8_Witness ==
    /\ res.status = 201
    /\ Len(histPoints) > 0
    /\ Len(histTransactions) > 0
    /\ now > 1

(***************************************************************************)
(* C9 - append-only store.  Every step leaves each stored record in place   *)
(* with its fields; the steps of a history query change neither table.      *)
(***************************************************************************)
IsPrefix(s, t) == Len(s) <= Len(t) /\ SubSeq(t, 1, Len(s)) = s

C9_AppendOnly ==
    [][ /\ IsPrefix(histPoints, histPoints')
        /\ IsPrefix(histTransactions, histTransactions')
        /\ (q' # q \/ res'.req.route # "none") =>
              UNCHANGED <<histPoints, histTransactions>>
      ]_vars

\* Two records are stored and a query has been answered.
C9_Witness == Rows = 2 /\ IsHistory /\ Len(res.history) > 0

(***************************************************************************)
(* C10 - queries interleaved with writes.  The answer holds every matching  *)
(* record stored before the handler started, holds no record twice, and     *)
(* holds only records that are in the store when it is given.               *)
(***************************************************************************)
C10_Interleaved ==
    IsHistory =>
        LET h == Returned
        IN  /\ \A i \in 1..res.req.p0 :
                  Matches(histPoints[i], res.req) => HasEntry(h, "ponto", i)
            /\ \A i \in 1..res.req.t0 :
                  Matches(histTransactions[i], res.req) => HasEntry(h, "transacao", i)
            /\ \A k1, k2 \in DOMAIN h :
                  (h[k1].tipo = h[k2].tipo /\ h[k1].row = h[k2].row) => k1 = k2
            /\ \A k \in DOMAIN h : Carries(h[k])

\* The answer holds a transaction stored after the first SELECT ran and omits
\* a matching point event stored in the same interval.
C10_Witness ==
    /\ IsHistory
    /\ \E k \in DOMAIN Returned :
          Returned[k].tipo = "transacao" /\ Returned[k].row > res.req.t0
    /\ \E i \in DOMAIN histPoints :
          /\ i > res.req.p0
          /\ Matches(histPoints[i], res.req)
          /\ ~HasEntry(Returned, "ponto", i)

====
